---- MODULE Spec2Model ----
(***************************************************************************)
(* Model of cmd/metrics-server/app/start.go: the option set, the           *)
(* configuration assembler (MetricsServerOptions.Config) and the lifecycle *)
(* orchestrator (MetricsServerOptions.Run), one action per statement that   *)
(* calls a collaborator.  The collaborators' outcomes (success or error)   *)
(* are nondeterministic.  The synchronization manager's background loop    *)
(* lives in pkg/manager and is modelled from its documented contract.      *)
(***************************************************************************)
EXTENDS Naturals, Sequences, FiniteSets, TLC

VARIABLES
    pc,            \* position of the single control thread (command -> Run -> Config)
    origin,        \* "cli": options built by NewCommandStartMetricsServer; "direct": a struct built by the caller
    o,             \* the MetricsServerOptions value
    secureServing, \* the SecureServingOptions object o.SecureServing points to
    serverConfig,  \* Config's local *genericapiserver.Config
    config,        \* the *apiserver.Config returned by Config (nil flag + fields)
    err,           \* the err value last assigned in Config / Run
    ret,           \* the value returned by Run
    clientConfig,  \* Run's local clientConfig
    kubeletConfig, \* Run's local kubeletConfig
    pipeline,      \* Run's locals metricSink, metricsProvider
    mgr,           \* the synchronization manager
    server,        \* the API server
    closed,        \* the set of channels that have been closed
    log            \* history: the collaborator calls made so far, with their outcome

vars == <<pc, origin, o, secureServing, serverConfig, config, err, ret,
          clientConfig, kubeletConfig, pipeline, mgr, server, closed, log>>

----------------------------------------------------------------------------
(* Bounds and program constants *)

\* at most this many scrape cycles are explored
MaxCycles == 2

\* at most this many health-check requests are explored
MaxChecks == 1

\* NewMetricsServerOptions: MetricResolution 60 * time.Second
DefaultMetricResolution == 60

\* NewMetricsServerOptions: KubeletPort
DefaultKubeletPort == 10250

\* the values --kubelet-port takes: the default and one other
Ports == {DefaultKubeletPort, DefaultKubeletPort + 5}

\* the values --metric-resolution takes (seconds): the default and one other
Resolutions == {DefaultMetricResolution, DefaultMetricResolution - 50}

\* the values of the kubeconfig path: empty (in-cluster) or a file path
Kubeconfigs == {"", "/kubeconfig"}

\* values of the serving certificate file: none supplied, or a file
CertFiles == {"", "/tls.crt"}

\* the channel handed to NewCommandStartMetricsServer / Run
stopCh == "stopCh"

----------------------------------------------------------------------------
(* Errors *)

\* the nil error
NilErr == [prefix |-> "", cause |-> "nil"]

\* the error a collaborator call returns
CallErr(op) == [prefix |-> "", cause |-> op]

\* fmt.Errorf("<prefix>: %v", err)
Errorf(prefix, e) == [prefix |-> prefix, cause |-> e.cause]

\* the value of ret while Run has not returned
NotReturned == [prefix |-> "", cause |-> "running"]

----------------------------------------------------------------------------
(* Options *)

\* MetricsServerOptions as a value; SecureServing is a pointer, its target is
\* the variable secureServing
OptionValues ==
    [DisableAuthForTesting : BOOLEAN,
     Kubeconfig : Kubeconfigs,
     MetricResolution : Resolutions,
     KubeletPort : Ports,
     InsecureKubelet : BOOLEAN]

NewMetricsServerOptions ==
    [DisableAuthForTesting |-> FALSE,
     Kubeconfig |-> "",
     MetricResolution |-> DefaultMetricResolution,
     KubeletPort |-> DefaultKubeletPort,
     InsecureKubelet |-> FALSE]

\* genericoptions.NewSecureServingOptions(): no certificate supplied yet
NewSecureServingOptions == [CertFile |-> "", Generated |-> FALSE]

\* the zero values of Run's and Config's locals
NilAuthn == [applied |-> FALSE, servingInfo |-> "nil"]

NilServerConfig ==
    [created |-> FALSE, SecureServing |-> "nil", Authentication |-> NilAuthn,
     Authorization |-> FALSE, SwaggerConfig |-> "nil", EnableMetrics |-> FALSE]

NilProvider == [id |-> 0, side |-> "nil"]

NilConfig ==
    [nil |-> TRUE, GenericConfig |-> NilServerConfig,
     Node |-> NilProvider, Pod |-> NilProvider]

NilClientConfig == [nil |-> TRUE, from |-> "nil"]

NilKubeletConfig == [nil |-> TRUE, Port |-> 0, from |-> "nil"]

NilPipeline == [metricSink |-> NilProvider, metricsProvider |-> NilProvider]

NilManager ==
    [created |-> FALSE, sink |-> NilProvider, resolution |-> 0,
     stopCh |-> "nil", loop |-> "none", inCycle |-> FALSE,
     cycles |-> 0, healthy |-> FALSE]

NilServer ==
    [created |-> FALSE, Node |-> NilProvider, Pod |-> NilProvider,
     checks |-> {}, state |-> "none", stopCh |-> "nil", checked |-> 0]

Call(op, ok) == [op |-> op, ok |-> ok]

----------------------------------------------------------------------------
Init ==
    /\ \/ /\ origin = "cli"
          /\ o = NewMetricsServerOptions
          /\ secureServing = NewSecureServingOptions
          /\ pc = "flags"
       \/ /\ origin = "direct"
          /\ o \in OptionValues
          /\ secureServing \in [CertFile : CertFiles, Generated : {FALSE}]
          /\ pc = "run"
    /\ serverConfig = NilServerConfig
    /\ config = NilConfig
    /\ err = NilErr
    /\ ret = NotReturned
    /\ clientConfig = NilClientConfig
    /\ kubeletConfig = NilKubeletConfig
    /\ pipeline = NilPipeline
    /\ mgr = NilManager
    /\ server = NilServer
    /\ closed = {}
    /\ log = <<>>

----------------------------------------------------------------------------
(* NewCommandStartMetricsServer *)

\* ParseFlags with a flag bound to DisableAuthForTesting as well
ParseFlags_BypassFlag ==
    /\ pc = "flags"
    /\ \E res \in Resolutions, ins \in BOOLEAN, port \in Ports,
          kc \in Kubeconfigs, cert \in CertFiles, bypass \in BOOLEAN :
          /\ o' = [o EXCEPT !.MetricResolution = res,
                            !.InsecureKubelet = ins,
                            !.KubeletPort = port,
                            !.Kubeconfig = kc,
                            !.DisableAuthForTesting = bypass]
          /\ secureServing' = [secureServing EXCEPT !.CertFile = cert]
    /\ pc' = "run"
    /\ UNCHANGED <<origin, serverConfig, config, err, ret, clientConfig,
                   kubeletConfig, pipeline, mgr, server, closed, log>>

\* cmd.Flags(): the flags registered by NewCommandStartMetricsServer, parsed
\* from the command line; no flag is bound to DisableAuthForTesting
ParseFlags ==
    /\ pc = "flags"
    /\ \E res \in Resolutions, ins \in BOOLEAN, port \in Ports,
          kc \in Kubeconfigs, cert \in CertFiles :
          /\ o' = [o EXCEPT !.MetricResolution = res,
                            !.InsecureKubelet = ins,
                            !.KubeletPort = port,
                            !.Kubeconfig = kc]
          /\ secureServing' = [secureServing EXCEPT !.CertFile = cert]
    /\ pc' = "run"
    /\ UNCHANGED <<origin, serverConfig, config, err, ret, clientConfig,
                   kubeletConfig, pipeline, mgr, server, closed, log>>

\* RunE: o.Run(stopCh) is entered and calls o.Config()
RunE ==
    /\ pc = "run"
    /\ pc' = "cfg_certs"
    /\ UNCHANGED <<origin, o, secureServing, serverConfig, config, err, ret,
                   clientConfig, kubeletConfig, pipeline, mgr, server, closed, log>>

----------------------------------------------------------------------------
(* MetricsServerOptions.Config *)

\* ConfigNext with the authn/authz block placed before SecureServing.ApplyTo
ConfigNext_AuthFirst(step, opts) ==
    CASE step = "cfg_certs"     -> "cfg_newconfig"
      [] step = "cfg_newconfig" -> IF opts.DisableAuthForTesting
                                   THEN "cfg_secure" ELSE "cfg_authn"
      [] step = "cfg_authn"     -> "cfg_authz"
      [] step = "cfg_authz"     -> "cfg_secure"
      [] step = "cfg_secure"    -> "cfg_swagger"
      [] step = "cfg_swagger"   -> "run_checkcfg"

\* the statement Config executes after `step` has succeeded
ConfigNext(step, opts) ==
    CASE step = "cfg_certs"     -> "cfg_newconfig"
      [] step = "cfg_newconfig" -> "cfg_secure"
      [] step = "cfg_secure"    -> IF opts.DisableAuthForTesting
                                   THEN "cfg_swagger" ELSE "cfg_authn"
      [] step = "cfg_authn"     -> "cfg_authz"
      [] step = "cfg_authz"     -> "cfg_swagger"
      [] step = "cfg_swagger"   -> "run_checkcfg"

\* ConfigFailure returning the half-built configuration next to the error
ConfigFailure_Partial(sc, e) ==
    [config |-> [nil |-> FALSE, GenericConfig |-> sc,
                 Node |-> [id |-> 0, side |-> "nil"],
                 Pod |-> [id |-> 0, side |-> "nil"]],
     err |-> e]

\* `return nil, err`: what Config hands back when a sub-step failed
ConfigFailure(sc, e) == [config |-> NilConfig, err |-> e]

\* `return &apiserver.Config{GenericConfig: serverConfig, ProviderConfig: {}}, nil`
ConfigSuccess(sc) ==
    [config |-> [nil |-> FALSE, GenericConfig |-> sc,
                 Node |-> NilProvider, Pod |-> NilProvider],
     err |-> NilErr]

\* ConfigCerts generating a certificate over a supplied one as well
ConfigCerts_Overwrite ==
    /\ pc = "cfg_certs"
    /\ log' = Append(log, Call("MaybeDefaultWithSelfSignedCerts", TRUE))
    /\ secureServing' = [CertFile |-> "/self-signed.crt", Generated |-> TRUE]
    /\ pc' = ConfigNext("cfg_certs", o)
    /\ UNCHANGED <<origin, o, serverConfig, config, err, ret, clientConfig,
                   kubeletConfig, pipeline, mgr, server, closed>>

\* ConfigCerts going on to the next statement when generation failed
ConfigCerts_IgnoreErr ==
    /\ pc = "cfg_certs"
    /\ \E ok \in BOOLEAN :
          /\ log' = Append(log, Call("MaybeDefaultWithSelfSignedCerts", ok))
          /\ ok \/ secureServing.CertFile = ""
          /\ secureServing' =
                IF ok /\ secureServing.CertFile = ""
                THEN [CertFile |-> "/self-signed.crt", Generated |-> TRUE]
                ELSE secureServing
    /\ pc' = ConfigNext("cfg_certs", o)
    /\ UNCHANGED <<origin, o, serverConfig, config, err, ret, clientConfig,
                   kubeletConfig, pipeline, mgr, server, closed>>

\* o.SecureServing.MaybeDefaultWithSelfSignedCerts("localhost", nil, {127.0.0.1}):
\* a no-op when a certificate was supplied; otherwise it writes the certificate
\* path into the options object and generates the certificate; on error, with
\* the path written or not, Config returns the wrapped error
ConfigCerts ==
    /\ pc = "cfg_certs"
    /\ \E ok \in BOOLEAN :
          /\ log' = Append(log, Call("MaybeDefaultWithSelfSignedCerts", ok))
          /\ IF ok
             THEN /\ secureServing' =
                       IF secureServing.CertFile = ""
                       THEN [CertFile |-> "/self-signed.crt", Generated |-> TRUE]
                       ELSE secureServing
                  /\ pc' = ConfigNext("cfg_certs", o)
                  /\ UNCHANGED <<config, err>>
             ELSE /\ secureServing.CertFile = ""
                  /\ LET r == ConfigFailure(serverConfig,
                                 Errorf("error creating self-signed certificates",
                                        CallErr("MaybeDefaultWithSelfSignedCerts")))
                     IN /\ config' = r.config
                        /\ err' = r.err
                  /\ pc' = "run_checkcfg"
                  /\ \E written \in BOOLEAN :
                        secureServing' =
                           IF written
                           THEN [CertFile |-> "/self-signed.crt", Generated |-> FALSE]
                           ELSE secureServing
    /\ UNCHANGED <<origin, o, serverConfig, ret, clientConfig, kubeletConfig,
                   pipeline, mgr, server, closed>>

\* serverConfig := genericapiserver.NewConfig(apiserver.Codecs)
ConfigNewConfig ==
    /\ pc = "cfg_newconfig"
    /\ serverConfig' = [NilServerConfig EXCEPT !.created = TRUE]
    /\ log' = Append(log, Call("NewConfig", TRUE))
    /\ pc' = ConfigNext("cfg_newconfig", o)
    /\ UNCHANGED <<origin, o, secureServing, config, err, ret, clientConfig,
                   kubeletConfig, pipeline, mgr, server, closed>>

\* o.SecureServing.ApplyTo(&serverConfig.SecureServing): loads the certificate
\* named by the options into the server configuration
ConfigSecureServing ==
    /\ pc = "cfg_secure"
    /\ \E ok \in BOOLEAN :
          /\ log' = Append(log, Call("SecureServing.ApplyTo", ok))
          /\ IF ok
             THEN /\ serverConfig' =
                       [serverConfig EXCEPT !.SecureServing = secureServing.CertFile]
                  /\ pc' = ConfigNext("cfg_secure", o)
                  /\ UNCHANGED <<config, err>>
             ELSE /\ LET r == ConfigFailure(serverConfig,
                                            CallErr("SecureServing.ApplyTo"))
                     IN /\ config' = r.config
                        /\ err' = r.err
                  /\ pc' = "run_checkcfg"
                  /\ UNCHANGED serverConfig
    /\ UNCHANGED <<origin, o, secureServing, ret, clientConfig, kubeletConfig,
                   pipeline, mgr, server, closed>>

\* o.Authentication.ApplyTo(&serverConfig.Authentication, serverConfig.SecureServing, nil)
ConfigAuthentication ==
    /\ pc = "cfg_authn"
    /\ \E ok \in BOOLEAN :
          /\ log' = Append(log, Call("Authentication.ApplyTo", ok))
          /\ IF ok
             THEN /\ serverConfig' =
                       [serverConfig EXCEPT !.Authentication =
                           [applied |-> TRUE,
                            servingInfo |-> serverConfig.SecureServing]]
                  /\ pc' = ConfigNext("cfg_authn", o)
                  /\ UNCHANGED <<config, err>>
             ELSE /\ LET r == ConfigFailure(serverConfig,
                                            CallErr("Authentication.ApplyTo"))
                     IN /\ config' = r.config
                        /\ err' = r.err
                  /\ pc' = "run_checkcfg"
                  /\ UNCHANGED serverConfig
    /\ UNCHANGED <<origin, o, secureServing, ret, clientConfig, kubeletConfig,
                   pipeline, mgr, server, closed>>

\* o.Authorization.ApplyTo(&serverConfig.Authorization)
ConfigAuthorization ==
    /\ pc = "cfg_authz"
    /\ \E ok \in BOOLEAN :
          /\ log' = Append(log, Call("Authorization.ApplyTo", ok))
          /\ IF ok
             THEN /\ serverConfig' = [serverConfig EXCEPT !.Authorization = TRUE]
                  /\ pc' = ConfigNext("cfg_authz", o)
                  /\ UNCHANGED <<config, err>>
             ELSE /\ LET r == ConfigFailure(serverConfig,
                                            CallErr("Authorization.ApplyTo"))
                     IN /\ config' = r.config
                        /\ err' = r.err
                  /\ pc' = "run_checkcfg"
                  /\ UNCHANGED serverConfig
    /\ UNCHANGED <<origin, o, secureServing, ret, clientConfig, kubeletConfig,
                   pipeline, mgr, server, closed>>

\* serverConfig.SwaggerConfig = DefaultSwaggerConfig(); return &apiserver.Config{...}, nil
ConfigSwaggerReturn ==
    /\ pc = "cfg_swagger"
    /\ log' = Append(log, Call("DefaultSwaggerConfig", TRUE))
    /\ LET sc == [serverConfig EXCEPT !.SwaggerConfig = "default"]
           r == ConfigSuccess(sc)
       IN /\ serverConfig' = sc
          /\ config' = r.config
          /\ err' = r.err
    /\ pc' = ConfigNext("cfg_swagger", o)
    /\ UNCHANGED <<origin, o, secureServing, ret, clientConfig, kubeletConfig,
                   pipeline, mgr, server, closed>>

----------------------------------------------------------------------------
(* MetricsServerOptions.Run *)

\* RunNext with the manager's loop started before the health check is registered
RunNext_HealthzAfterStart(step) ==
    CASE step = "run_checkcfg"  -> "run_clientcfg"
      [] step = "run_clientcfg" -> "run_kubeclient"
      [] step = "run_kubeclient" -> "run_informers"
      [] step = "run_informers" -> "run_kubelet"
      [] step = "run_kubelet"   -> "run_srcmgr"
      [] step = "run_srcmgr"    -> "run_sink"
      [] step = "run_sink"      -> "run_mgr"
      [] step = "run_mgr"       -> "run_inject"
      [] step = "run_inject"    -> "run_complete"
      [] step = "run_complete"  -> "run_mgrstart"
      [] step = "run_mgrstart"  -> "run_healthz"
      [] step = "run_healthz"   -> "run_server"
      [] step = "run_server"    -> "run_serving"

\* RunNext with the server run before the manager's loop is started
RunNext_ServerFirst(step) ==
    CASE step = "run_checkcfg"  -> "run_clientcfg"
      [] step = "run_clientcfg" -> "run_kubeclient"
      [] step = "run_kubeclient" -> "run_informers"
      [] step = "run_informers" -> "run_kubelet"
      [] step = "run_kubelet"   -> "run_srcmgr"
      [] step = "run_srcmgr"    -> "run_sink"
      [] step = "run_sink"      -> "run_mgr"
      [] step = "run_mgr"       -> "run_inject"
      [] step = "run_inject"    -> "run_complete"
      [] step = "run_complete"  -> "run_healthz"
      [] step = "run_healthz"   -> "run_server"
      [] step = "run_server"    -> "run_mgrstart"
      [] step = "run_mgrstart"  -> "run_serving"

\* the statement Run executes after `step` when it does not return
RunNext(step) ==
    CASE step = "run_checkcfg"  -> "run_clientcfg"
      [] step = "run_clientcfg" -> "run_kubeclient"
      [] step = "run_kubeclient" -> "run_informers"
      [] step = "run_informers" -> "run_kubelet"
      [] step = "run_kubelet"   -> "run_srcmgr"
      [] step = "run_srcmgr"    -> "run_sink"
      [] step = "run_sink"      -> "run_mgr"
      [] step = "run_mgr"       -> "run_inject"
      [] step = "run_inject"    -> "run_complete"
      [] step = "run_complete"  -> "run_healthz"
      [] step = "run_healthz"   -> "run_mgrstart"
      [] step = "run_mgrstart"  -> "run_server"
      [] step = "run_server"    -> "run_serving"

\* RunAfter with the error check dropped
RunAfter_IgnoreErr(step, e) == RunNext(step)

\* `if err != nil { return ... }` after `step`: Run returns when the step left
\* an error, and goes on to the next statement otherwise
RunAfter(step, e) == IF e # NilErr THEN "returned" ELSE RunNext(step)

\* summary.GetKubeletConfig(clientConfig, o.KubeletPort): the arguments Run passes
GetKubeletConfig(cc, port) == [nil |-> FALSE, Port |-> port, from |-> cc.from]

\* kubeletConfig := summary.GetKubeletConfig(clientConfig, o.KubeletPort): the
\* agent connection parameters Run builds from its options and client config
KubeletConfigFor(opts, cc) == GetKubeletConfig(cc, opts.KubeletPort)

\* provider.NewSinkProvider(): one sink, returned as its write side and its read side
NewSinkProvider ==
    [metricSink |-> [id |-> 1, side |-> "write"],
     metricsProvider |-> [id |-> 1, side |-> "read"]]

\* config, err := o.Config(); if err != nil { return err }; EnableMetrics = true
RunCheckConfig ==
    /\ pc = "run_checkcfg"
    /\ pc' = RunAfter("run_checkcfg", err)
    /\ IF pc' = "returned"
       THEN /\ ret' = err
            /\ UNCHANGED config
       ELSE /\ config' = [config EXCEPT !.GenericConfig.EnableMetrics = TRUE]
            /\ UNCHANGED ret
    /\ UNCHANGED <<origin, o, secureServing, serverConfig, err, clientConfig,
                   kubeletConfig, pipeline, mgr, server, closed, log>>

\* RunClientConfig falling back to the in-cluster identity when the configured
\* kubeconfig file cannot be loaded
RunClientConfig_Fallback ==
    /\ pc = "run_clientcfg"
    /\ \E ok \in BOOLEAN, okInCluster \in BOOLEAN :
         LET explicit == Len(o.Kubeconfig) > 0
             op == IF explicit THEN "loader.ClientConfig" ELSE "rest.InClusterConfig"
             fallback == explicit /\ ~ok
             good == IF fallback THEN okInCluster ELSE ok
             src == IF explicit /\ ok THEN o.Kubeconfig ELSE "in-cluster"
         IN /\ log' = IF fallback
                      THEN log \o <<Call(op, ok), Call("rest.InClusterConfig", okInCluster)>>
                      ELSE Append(log, Call(op, ok))
            /\ err' = IF good THEN NilErr
                      ELSE CallErr(IF fallback THEN "rest.InClusterConfig" ELSE op)
            /\ clientConfig' = IF good THEN [nil |-> FALSE, from |-> src]
                               ELSE NilClientConfig
    /\ pc' = RunAfter("run_clientcfg", err')
    /\ ret' = IF pc' = "returned"
              THEN Errorf("unable to construct lister client config", err')
              ELSE ret
    /\ UNCHANGED <<origin, o, secureServing, serverConfig, config,
                   kubeletConfig, pipeline, mgr, server, closed>>

\* the client config: loader.ClientConfig() for an explicit kubeconfig path,
\* rest.InClusterConfig() otherwise
RunClientConfig ==
    /\ pc = "run_clientcfg"
    /\ \E ok \in BOOLEAN :
         LET op == IF Len(o.Kubeconfig) > 0
                   THEN "loader.ClientConfig" ELSE "rest.InClusterConfig"
             src == IF Len(o.Kubeconfig) > 0 THEN o.Kubeconfig ELSE "in-cluster"
         IN /\ log' = Append(log, Call(op, ok))
            /\ err' = IF ok THEN NilErr ELSE CallErr(op)
            /\ clientConfig' = IF ok THEN [nil |-> FALSE, from |-> src]
                               ELSE NilClientConfig
    /\ pc' = RunAfter("run_clientcfg", err')
    /\ ret' = IF pc' = "returned"
              THEN Errorf("unable to construct lister client config", err')
              ELSE ret
    /\ UNCHANGED <<origin, o, secureServing, serverConfig, config,
                   kubeletConfig, pipeline, mgr, server, closed>>

\* kubeClient, err := kubernetes.NewForConfig(clientConfig)
RunKubeClient ==
    /\ pc = "run_kubeclient"
    /\ \E ok \in BOOLEAN :
         /\ log' = Append(log, Call("kubernetes.NewForConfig", ok))
         /\ err' = IF ok THEN NilErr ELSE CallErr("kubernetes.NewForConfig")
    /\ pc' = RunAfter("run_kubeclient", err')
    /\ ret' = IF pc' = "returned"
              THEN Errorf("unable to construct lister client", err')
              ELSE ret
    /\ UNCHANGED <<origin, o, secureServing, serverConfig, config, clientConfig,
                   kubeletConfig, pipeline, mgr, server, closed>>

\* informerFactory := informers.NewSharedInformerFactory(kubeClient, 0)
RunInformerFactory ==
    /\ pc = "run_informers"
    /\ log' = Append(log, Call("informers.NewSharedInformerFactory", TRUE))
    /\ pc' = RunNext("run_informers")
    /\ UNCHANGED <<origin, o, secureServing, serverConfig, config, err, ret,
                   clientConfig, kubeletConfig, pipeline, mgr, server, closed>>

\* kubeletConfig := GetKubeletConfig(clientConfig, o.KubeletPort);
\* kubeletClient, err := summary.KubeletClientFor(kubeletConfig)
RunKubeletClient ==
    /\ pc = "run_kubelet"
    /\ kubeletConfig' = KubeletConfigFor(o, clientConfig)
    /\ \E ok \in BOOLEAN :
         /\ log' = Append(log, Call("summary.KubeletClientFor", ok))
         /\ err' = IF ok THEN NilErr ELSE CallErr("summary.KubeletClientFor")
    /\ pc' = RunAfter("run_kubelet", err')
    /\ ret' = IF pc' = "returned"
              THEN Errorf("unable to construct a client to connect to the kubelets", err')
              ELSE ret
    /\ UNCHANGED <<origin, o, secureServing, serverConfig, config, clientConfig,
                   pipeline, mgr, server, closed>>

\* sourceProvider := summary.NewSummaryProvider(...);
\* sourceManager, err := sources.NewSourceManager(sourceProvider, DefaultMetricsScrapeTimeout)
RunSourceManager ==
    /\ pc = "run_srcmgr"
    /\ \E ok \in BOOLEAN :
         /\ log' = Append(log, Call("sources.NewSourceManager", ok))
         /\ err' = IF ok THEN NilErr ELSE CallErr("sources.NewSourceManager")
    /\ pc' = RunAfter("run_srcmgr", err')
    /\ ret' = IF pc' = "returned"
              THEN Errorf("unable to initialize source manager", err')
              ELSE ret
    /\ UNCHANGED <<origin, o, secureServing, serverConfig, config, clientConfig,
                   kubeletConfig, pipeline, mgr, server, closed>>

\* metricSink, metricsProvider := provider.NewSinkProvider()
RunSinkProvider ==
    /\ pc = "run_sink"
    /\ pipeline' = NewSinkProvider
    /\ log' = Append(log, Call("provider.NewSinkProvider", TRUE))
    /\ pc' = RunNext("run_sink")
    /\ UNCHANGED <<origin, o, secureServing, serverConfig, config, err, ret,
                   clientConfig, kubeletConfig, mgr, server, closed>>

\* mgr := manager.NewManager(sourceManager, metricSink, o.MetricResolution);
\* the `if err != nil` that follows tests the err left by NewSourceManager
RunNewManager ==
    /\ pc = "run_mgr"
    /\ mgr' = [NilManager EXCEPT !.created = TRUE,
                                 !.sink = pipeline.metricSink,
                                 !.resolution = o.MetricResolution]
    /\ log' = Append(log, Call("manager.NewManager", TRUE))
    /\ pc' = RunAfter("run_mgr", err)
    /\ ret' = IF pc' = "returned"
              THEN Errorf("unable to create main manager", err)
              ELSE ret
    /\ UNCHANGED <<origin, o, secureServing, serverConfig, config, err,
                   clientConfig, kubeletConfig, pipeline, server, closed>>

\* RunInjectProviders putting the sink's write side into the Pod slot
RunInjectProviders_SinkInSlot ==
    /\ pc = "run_inject"
    /\ config' = [config EXCEPT !.Node = pipeline.metricsProvider,
                                !.Pod = pipeline.metricSink]
    /\ pc' = RunNext("run_inject")
    /\ UNCHANGED <<origin, o, secureServing, serverConfig, err, ret, clientConfig,
                   kubeletConfig, pipeline, mgr, server, closed, log>>

\* RunInjectProviders assigning the Node slot only
RunInjectProviders_NodeOnly ==
    /\ pc = "run_inject"
    /\ config' = [config EXCEPT !.Node = pipeline.metricsProvider]
    /\ pc' = RunNext("run_inject")
    /\ UNCHANGED <<origin, o, secureServing, serverConfig, err, ret, clientConfig,
                   kubeletConfig, pipeline, mgr, server, closed, log>>

\* config.ProviderConfig.Node = metricsProvider; config.ProviderConfig.Pod = metricsProvider
RunInjectProviders ==
    /\ pc = "run_inject"
    /\ config' = [config EXCEPT !.Node = pipeline.metricsProvider,
                                !.Pod = pipeline.metricsProvider]
    /\ pc' = RunNext("run_inject")
    /\ UNCHANGED <<origin, o, secureServing, serverConfig, err, ret, clientConfig,
                   kubeletConfig, pipeline, mgr, server, closed, log>>

\* server, err := config.Complete(informerFactory).New(): the server is built
\* from the configuration as it is at this point
RunCompleteNew ==
    /\ pc = "run_complete"
    /\ \E ok \in BOOLEAN :
         /\ log' = Append(log, Call("config.Complete.New", ok))
         /\ err' = IF ok THEN NilErr ELSE CallErr("config.Complete.New")
         /\ server' = IF ok
                      THEN [NilServer EXCEPT !.created = TRUE,
                                            !.Node = config.Node,
                                            !.Pod = config.Pod,
                                            !.state = "new"]
                      ELSE server
    /\ pc' = RunAfter("run_complete", err')
    /\ ret' = IF pc' = "returned" THEN err' ELSE ret
    /\ UNCHANGED <<origin, o, secureServing, serverConfig, config, clientConfig,
                   kubeletConfig, pipeline, mgr, closed>>

\* server.AddHealthzChecks(healthz.NamedCheck("healthz", mgr.CheckHealth))
RunAddHealthzChecks ==
    /\ pc = "run_healthz"
    /\ server' = [server EXCEPT !.checks = @ \cup {"healthz"}]
    /\ log' = Append(log, Call("server.AddHealthzChecks", TRUE))
    /\ pc' = RunNext("run_healthz")
    /\ UNCHANGED <<origin, o, secureServing, serverConfig, config, err, ret,
                   clientConfig, kubeletConfig, pipeline, mgr, closed>>

\* RunMgrRunUntil handing the manager a channel of its own, which nobody closes
RunMgrRunUntil_OwnChannel ==
    /\ pc = "run_mgrstart"
    /\ mgr' = [mgr EXCEPT !.loop = "running", !.stopCh = "mgrStopCh"]
    /\ log' = Append(log, Call("mgr.RunUntil", TRUE))
    /\ pc' = RunNext("run_mgrstart")
    /\ UNCHANGED <<origin, o, secureServing, serverConfig, config, err, ret,
                   clientConfig, kubeletConfig, pipeline, server, closed>>

\* mgr.RunUntil(stopCh): starts the manager's background loop and returns
RunMgrRunUntil ==
    /\ pc = "run_mgrstart"
    /\ mgr' = [mgr EXCEPT !.loop = "running", !.stopCh = stopCh]
    /\ log' = Append(log, Call("mgr.RunUntil", TRUE))
    /\ pc' = RunNext("run_mgrstart")
    /\ UNCHANGED <<origin, o, secureServing, serverConfig, config, err, ret,
                   clientConfig, kubeletConfig, pipeline, server, closed>>

\* RunServerRun closing the stop channel itself when the server fails to come up
RunServerRun_CloseOnFail ==
    /\ pc = "run_server"
    /\ \E ok \in BOOLEAN :
         /\ log' = Append(log, Call("server.PrepareRun.Run", ok))
         /\ IF ok
            THEN /\ server' = [server EXCEPT !.state = "listening",
                                             !.stopCh = stopCh]
                 /\ pc' = RunNext("run_server")
                 /\ UNCHANGED <<ret, closed>>
            ELSE /\ server' = [server EXCEPT !.state = "failed",
                                             !.stopCh = stopCh]
                 /\ pc' = "returned"
                 /\ ret' = CallErr("server.PrepareRun.Run")
                 /\ closed' = closed \cup {stopCh}
    /\ UNCHANGED <<origin, o, secureServing, serverConfig, config, err,
                   clientConfig, kubeletConfig, pipeline, mgr>>

\* return server.GenericAPIServer.PrepareRun().Run(stopCh): either the server
\* fails to come up and Run returns its error, or it listens and the call blocks
RunServerRun ==
    /\ pc = "run_server"
    /\ \E ok \in BOOLEAN :
         /\ log' = Append(log, Call("server.PrepareRun.Run", ok))
         /\ IF ok
            THEN /\ server' = [server EXCEPT !.state = "listening",
                                             !.stopCh = stopCh]
                 /\ pc' = RunNext("run_server")
                 /\ UNCHANGED ret
            ELSE /\ server' = [server EXCEPT !.state = "failed",
                                             !.stopCh = stopCh]
                 /\ pc' = "returned"
                 /\ ret' = CallErr("server.PrepareRun.Run")
    /\ UNCHANGED <<origin, o, secureServing, serverConfig, config, err,
                   clientConfig, kubeletConfig, pipeline, mgr, closed>>

\* the blocked Run(stopCh) call observes the closed channel, the server closes
\* its listener and the call, and with it MetricsServerOptions.Run, returns nil
ServerShutdown ==
    /\ pc = "run_serving"
    /\ server.stopCh \in closed
    /\ server' = [server EXCEPT !.state = "stopped"]
    /\ ret' = NilErr
    /\ pc' = "returned"
    /\ UNCHANGED <<origin, o, secureServing, serverConfig, config, err,
                   clientConfig, kubeletConfig, pipeline, mgr, closed, log>>

----------------------------------------------------------------------------
(* The cancellation signal and the manager's background loop *)

\* the owner of the channel passed to NewCommandStartMetricsServer closes it
CloseStopCh ==
    /\ stopCh \notin closed
    /\ closed' = closed \cup {stopCh}
    /\ UNCHANGED <<pc, origin, o, secureServing, serverConfig, config, err, ret,
                   clientConfig, kubeletConfig, pipeline, mgr, server, log>>

\* the periodic timer fires and the manager starts a scrape cycle; the timer
\* accepts no new cycle once the manager's stop channel is closed
MgrCycleStart ==
    /\ mgr.loop = "running"
    /\ ~mgr.inCycle
    /\ mgr.stopCh \notin closed
    /\ mgr.cycles < MaxCycles
    /\ mgr' = [mgr EXCEPT !.inCycle = TRUE]
    /\ log' = Append(log, Call("mgr.cycle", TRUE))
    /\ UNCHANGED <<pc, origin, o, secureServing, serverConfig, config, err, ret,
                   clientConfig, kubeletConfig, pipeline, server, closed>>

\* the cycle in flight completes (bounded by its own timeout) and its outcome
\* becomes the manager's health signal
MgrCycleEnd ==
    /\ mgr.loop = "running"
    /\ mgr.inCycle
    /\ \E ok \in BOOLEAN :
         /\ mgr' = [mgr EXCEPT !.inCycle = FALSE, !.cycles = @ + 1, !.healthy = ok]
         /\ log' = Append(log, Call("mgr.cycleEnd", ok))
    /\ UNCHANGED <<pc, origin, o, secureServing, serverConfig, config, err, ret,
                   clientConfig, kubeletConfig, pipeline, server, closed>>

\* the loop observes its closed stop channel, stops its timer and exits
MgrObserveStop ==
    /\ mgr.loop = "running"
    /\ ~mgr.inCycle
    /\ mgr.stopCh \in closed
    /\ mgr' = [mgr EXCEPT !.loop = "stopped"]
    /\ UNCHANGED <<pc, origin, o, secureServing, serverConfig, config, err, ret,
                   clientConfig, kubeletConfig, pipeline, server, closed, log>>

----------------------------------------------------------------------------
(* The registered health check *)

\* mgr.CheckHealth: the manager's health signal, the outcome of its last cycle
CheckHealth(m) == m.healthy

\* HealthzCheck answering with the health the manager had when the check was
\* registered instead of asking the manager
HealthzCheck_Cached ==
    /\ server.state = "listening"
    /\ "healthz" \in server.checks
    /\ server.checked < MaxChecks
    /\ server' = [server EXCEPT !.checked = @ + 1]
    /\ log' = Append(log, Call("healthz", CheckHealth(NilManager)))
    /\ UNCHANGED <<pc, origin, o, secureServing, serverConfig, config, err, ret,
                   clientConfig, kubeletConfig, pipeline, mgr, closed>>

\* a request reaches the listening server's "healthz" check, which is the method
\* value mgr.CheckHealth Run registered: each invocation asks the manager
HealthzCheck ==
    /\ server.state = "listening"
    /\ "healthz" \in server.checks
    /\ server.checked < MaxChecks
    /\ server' = [server EXCEPT !.checked = @ + 1]
    /\ log' = Append(log, Call("healthz", CheckHealth(mgr)))
    /\ UNCHANGED <<pc, origin, o, secureServing, serverConfig, config, err, ret,
                   clientConfig, kubeletConfig, pipeline, mgr, closed>>

----------------------------------------------------------------------------
Program ==
    \/ ParseFlags
    \/ RunE
    \/ ConfigCerts
    \/ ConfigNewConfig
    \/ ConfigSecureServing
    \/ ConfigAuthentication
    \/ ConfigAuthorization
    \/ ConfigSwaggerReturn
    \/ RunCheckConfig
    \/ RunClientConfig
    \/ RunKubeClient
    \/ RunInformerFactory
    \/ RunKubeletClient
    \/ RunSourceManager
    \/ RunSinkProvider
    \/ RunNewManager
    \/ RunInjectProviders
    \/ RunCompleteNew
    \/ RunAddHealthzChecks
    \/ RunMgrRunUntil
    \/ RunServerRun
    \/ ServerShutdown

Manager ==
    \/ MgrCycleStart
    \/ MgrCycleEnd
    \/ MgrObserveStop

Next == Program \/ Manager \/ HealthzCheck \/ CloseStopCh

Spec == Init /\ [][Next]_vars

\* the Go scheduler runs every runnable goroutine: the control thread and the
\* manager's loop each keep taking steps; the owner of the channel need never close it
FairSpec == Spec /\ WF_vars(Program) /\ WF_vars(Manager)

----------------------------------------------------------------------------
(* Reading the history *)

\* the positions of the calls of op in the history
Idx(op) == {i \in 1..Len(log) : log[i].op = op}

Did(op) == Idx(op) # {}

DidOk(op) == \E i \in Idx(op) : log[i].ok

\* the calls Config makes that can fail
ConfigOps ==
    {"MaybeDefaultWithSelfSignedCerts", "SecureServing.ApplyTo",
     "Authentication.ApplyTo", "Authorization.ApplyTo"}

\* the configuration, client, pipeline and server construction calls of Run
ConstructionOps ==
    ConfigOps \cup
    {"loader.ClientConfig", "rest.InClusterConfig", "kubernetes.NewForConfig",
     "summary.KubeletClientFor", "sources.NewSourceManager", "config.Complete.New"}

\* Config has returned to Run and Run has not yet looked at the result
ConfigReturned == pc = "run_checkcfg"

\* a scrape cycle starts in this step
CycleStarts == ~mgr.inCycle /\ mgr'.inCycle

----------------------------------------------------------------------------
(* Claims *)

\* C1: in Config, authentication and authorization delegation are never applied
\* before SecureServing.ApplyTo has succeeded; authentication is applied against
\* the populated secure-serving configuration; authorization only after
\* authentication has succeeded.
C1_AuthAfterSecureServing ==
    /\ \A i \in Idx("Authentication.ApplyTo") \cup Idx("Authorization.ApplyTo") :
          \E j \in 1..(i - 1) : log[j] = Call("SecureServing.ApplyTo", TRUE)
    /\ \A i \in Idx("Authorization.ApplyTo") :
          \E j \in 1..(i - 1) : log[j] = Call("Authentication.ApplyTo", TRUE)
    /\ serverConfig.Authentication.applied =>
          /\ serverConfig.Authentication.servingInfo # "nil"
          /\ serverConfig.Authentication.servingInfo = serverConfig.SecureServing
    /\ serverConfig.Authorization => serverConfig.Authentication.applied

C1_Witness ==
    /\ pc = "cfg_swagger"
    /\ serverConfig.Authentication.applied
    /\ serverConfig.Authorization

\* C2: when a configuration, client, pipeline-construction or server-construction
\* step of Run fails, Run returns that error, and neither the manager's loop nor
\* the server's PrepareRun/Run has been or is ever started.
C2_NoStartAfterFailedStage ==
    \A i \in 1..Len(log) :
       (log[i].op \in ConstructionOps /\ ~log[i].ok) =>
          /\ pc \in {"run_checkcfg", "returned"}
          /\ pc = "returned" => ret # NilErr /\ ret.cause = log[i].op
          /\ ~Did("mgr.RunUntil")
          /\ ~Did("server.PrepareRun.Run")
          /\ mgr.loop = "none"
          /\ server.state \in {"none", "new"}

C2_Witness ==
    /\ pc = "returned"
    /\ ret = CallErr("config.Complete.New")
    /\ mgr.created
    /\ mgr.loop = "none"

\* C3: the manager's loop is started strictly before the API server is prepared
\* and run, both with the stopCh passed to Run; the server never listens while
\* the manager's loop has not been started.
C3_ManagerBeforeServer ==
    /\ \A i \in Idx("server.PrepareRun.Run") :
          \E j \in 1..(i - 1) : log[j].op = "mgr.RunUntil"
    /\ server.state # "none" /\ server.state # "new" =>
          /\ mgr.loop # "none"
          /\ mgr.stopCh = stopCh
          /\ server.stopCh = stopCh

C3_Witness ==
    /\ server.state = "listening"
    /\ mgr.loop = "running"
    /\ mgr.stopCh = server.stopCh

\* C4 (as claimed): once both subsystems are started, Run returns only after the
\* signal has fired, the server has closed its listener and the manager's loop
\* has stopped.
C4_RunReturnsAfterBothReleased ==
    (pc = "returned" /\ DidOk("server.PrepareRun.Run")) =>
        /\ stopCh \in closed
        /\ server.state = "stopped"
        /\ mgr.loop = "stopped"

\* C5 (as claimed): when Run returns the server's preparation error, the manager
\* has been started and has been stopped again.
C5_ManagerStoppedOnPrepareFailure ==
    (pc = "returned" /\ ret = CallErr("server.PrepareRun.Run")) =>
        /\ Did("mgr.RunUntil")
        /\ mgr.loop = "stopped"

\* C6: no scrape cycle starts in a step taken after the signal has fired, and
\* once the signal has fired the manager's loop and the server eventually are,
\* and stay, stopped (the signal, once fired, stays fired, so this is: from some
\* point on, whenever the signal has fired both are stopped).
C6_CancellationStopsBoth ==
    /\ [][(stopCh \in closed) => ~CycleStarts]_vars
    /\ <>[]((stopCh \in closed) =>
               (mgr.loop # "running" /\ server.state # "listening"))

C6_Witness ==
    /\ stopCh \in closed
    /\ mgr.loop = "stopped"
    /\ mgr.cycles > 0
    /\ server.state = "stopped"

\* C7: whenever config.Complete(...).New() is invoked, both provider slots hold
\* the same provider, the read side of the sink handed to the manager; the slots
\* never hold different instances and no server is built with an empty slot.
C7_ProviderSlotsSameInstance ==
    /\ Did("config.Complete.New") =>
          /\ config.Node = config.Pod
          /\ config.Node.side = "read"
          /\ mgr.sink.side = "write"
          /\ config.Node.id = mgr.sink.id
    /\ (config.Node # NilProvider /\ config.Pod # NilProvider) =>
          config.Node = config.Pod
    /\ server.created =>
          /\ server.Node = server.Pod
          /\ server.Node # NilProvider
          /\ server.Node.id = mgr.sink.id

C7_Witness ==
    /\ server.created
    /\ server.Node = pipeline.metricsProvider
    /\ server.Pod = pipeline.metricsProvider

\* C8: a successful Config has applied authentication and authorization exactly
\* when DisableAuthForTesting is unset, neither is ever applied when it is set,
\* and options built by NewMetricsServerOptions and the CLI flags have it unset.
C8_AuthSkippedOnlyByTestFlag ==
    /\ origin = "cli" => ~o.DisableAuthForTesting
    /\ (Did("Authentication.ApplyTo") \/ Did("Authorization.ApplyTo")) =>
          ~o.DisableAuthForTesting
    /\ (ConfigReturned /\ err = NilErr) =>
          /\ ~config.nil
          /\ (~o.DisableAuthForTesting <=>
                 /\ DidOk("Authentication.ApplyTo")
                 /\ DidOk("Authorization.ApplyTo")
                 /\ config.GenericConfig.Authentication.applied
                 /\ config.GenericConfig.Authorization)

C8_Witness ==
    /\ origin = "cli"
    /\ ConfigReturned
    /\ err = NilErr
    /\ config.GenericConfig.Authentication.applied
    /\ config.GenericConfig.Authorization

\* C9: a failed sub-step of Config is the last one executed, and Config returns
\* its error with a nil configuration; a non-nil configuration is returned only
\* with a nil error and after every applicable sub-step succeeded.
C9_NoPartialConfig ==
    /\ \A i \in 1..Len(log) :
          (log[i].op \in ConfigOps /\ ~log[i].ok) =>
             /\ i = Len(log)
             /\ config.nil
             /\ err.cause = log[i].op
    /\ ConfigReturned => (config.nil <=> err # NilErr)
    /\ ~config.nil =>
          /\ \A i \in 1..Len(log) : log[i].op \in ConfigOps => log[i].ok
          /\ DidOk("MaybeDefaultWithSelfSignedCerts")
          /\ DidOk("SecureServing.ApplyTo")
          /\ config.GenericConfig.SwaggerConfig = "default"
          /\ ~o.DisableAuthForTesting =>
                DidOk("Authentication.ApplyTo") /\ DidOk("Authorization.ApplyTo")

C9_Witness ==
    /\ ConfigReturned
    /\ config.nil
    /\ err = CallErr("Authorization.ApplyTo")
    /\ serverConfig.Authentication.applied

\* C10 (as claimed): every successful Config call has applied the feature-gate
\* options (Features.ApplyTo) to the generic server configuration.
C10_FeaturesApplied ==
    (ConfigReturned /\ err = NilErr) => DidOk("Features.ApplyTo")

\* C11 (as claimed): every construction-time error Run returns is wrapped with a
\* description naming the stage that failed, and no failing step is retried.
C11_ConstructionErrorsWrapped ==
    /\ (pc = "returned" /\ ret.cause \in ConstructionOps) => ret.prefix # ""
    /\ \A op \in ConstructionOps : Cardinality(Idx(op)) <= 1

\* C12 (as claimed): the agent connection parameters Run builds differ between
\* two runs whose options differ only in InsecureKubelet, and between two runs
\* whose options differ only in KubeletPort.
C12_KubeletConfigDependsOnPortAndInsecure ==
    ~kubeletConfig.nil =>
       /\ kubeletConfig = KubeletConfigFor(o, clientConfig)
       /\ \A port \in Ports \ {o.KubeletPort} :
             KubeletConfigFor([o EXCEPT !.KubeletPort = port], clientConfig)
                # kubeletConfig
       /\ KubeletConfigFor([o EXCEPT !.InsecureKubelet = ~@], clientConfig)
             # kubeletConfig

\* the calls that resolve the client credentials
CredentialOps == {"loader.ClientConfig", "rest.InClusterConfig"}

\* C13: with a kubeconfig path configured only that file is loaded, without one
\* only the in-cluster identity is resolved; a failure of either is the last
\* call Run makes: Run returns it, and no cluster client, informer factory or
\* pipeline component is constructed.
C13_CredentialResolutionExclusive ==
    /\ Did("loader.ClientConfig") =>
          Len(o.Kubeconfig) > 0 /\ ~Did("rest.InClusterConfig")
    /\ Did("rest.InClusterConfig") =>
          Len(o.Kubeconfig) = 0 /\ ~Did("loader.ClientConfig")
    /\ ~clientConfig.nil =>
          clientConfig.from = (IF Len(o.Kubeconfig) > 0
                               THEN o.Kubeconfig ELSE "in-cluster")
    /\ \A i \in 1..Len(log) :
          (log[i].op \in CredentialOps /\ ~log[i].ok) =>
             /\ i = Len(log)
             /\ pc = "returned"
             /\ ret = Errorf("unable to construct lister client config",
                             CallErr(log[i].op))
             /\ clientConfig.nil
             /\ kubeletConfig.nil
             /\ pipeline = NilPipeline
             /\ ~mgr.created
             /\ ~server.created

C13_Witness ==
    /\ pc = "returned"
    /\ Len(o.Kubeconfig) > 0
    /\ ret.cause = "loader.ClientConfig"
    /\ ~config.nil

\* the last cycle that completed before position i of the history
LastCycleEndBefore(i) ==
    LET ends == {j \in Idx("mgr.cycleEnd") : j < i}
    IN IF ends = {} THEN 0 ELSE CHOOSE j \in ends : \A k \in ends : k <= j

\* C14: every invocation of the registered check "healthz" reports the outcome
\* of the manager's most recently completed scrape cycle, whatever the earlier
\* cycles' outcomes and however invocations interleave with cycles.
C14_HealthzReflectsLastCycle ==
    \A i \in Idx("healthz") :
       LastCycleEndBefore(i) # 0 => log[i].ok = log[LastCycleEndBefore(i)].ok

C14_Witness ==
    \E i \in Idx("healthz") :
       \E j \in Idx("mgr.cycleEnd") :
          /\ j < LastCycleEndBefore(i)
          /\ log[j].ok # log[LastCycleEndBefore(i)].ok
          /\ log[i].ok = log[LastCycleEndBefore(i)].ok

\* C15 (as claimed): no step of Config or Run changes the options: neither a
\* field of the options value nor the TLS serving options behind SecureServing.
C15_OptionsUnchanged ==
    [][pc # "flags" => (o' = o /\ secureServing' = secureServing)]_vars

\* C15 (amended): no step of Config or Run changes a field of the options value,
\* and the TLS serving options change in one way only: when no certificate was
\* supplied, MaybeDefaultWithSelfSignedCerts writes the self-signed
\* certificate's path into them.
C15_OnlyCertPathWritten ==
    [][pc # "flags" =>
         /\ o' = o
         /\ secureServing' # secureServing =>
               /\ pc = "cfg_certs"
               /\ secureServing.CertFile = ""
               /\ secureServing'.CertFile = "/self-signed.crt"
               /\ log'[Len(log')].op = "MaybeDefaultWithSelfSignedCerts"]_vars

C15_Witness ==
    /\ pc = "cfg_newconfig"
    /\ secureServing.Generated
    /\ secureServing.CertFile = "/self-signed.crt"

\* the calls of Config that create or fill the server configuration
ServingConfigOps ==
    {"NewConfig", "SecureServing.ApplyTo", "Authentication.ApplyTo",
     "Authorization.ApplyTo"}

\* C16: MaybeDefaultWithSelfSignedCerts is the first call of Config and has
\* succeeded before the server configuration is created or any secure-serving,
\* authentication or authorization option is applied; when it fails none of
\* them is executed.
C16_CertsFirst ==
    /\ log # <<>> => log[1].op = "MaybeDefaultWithSelfSignedCerts"
    /\ \A i \in 1..Len(log) :
          log[i].op \in ServingConfigOps =>
             \E j \in 1..(i - 1) :
                log[j] = Call("MaybeDefaultWithSelfSignedCerts", TRUE)
    /\ serverConfig.created =>
          /\ DidOk("MaybeDefaultWithSelfSignedCerts")
          /\ secureServing.CertFile # ""
    /\ serverConfig.SecureServing # "nil" =>
          serverConfig.SecureServing = secureServing.CertFile
    /\ (Did("MaybeDefaultWithSelfSignedCerts")
          /\ ~DidOk("MaybeDefaultWithSelfSignedCerts")) =>
          /\ Len(log) = 1
          /\ ~serverConfig.created
          /\ config.nil

C16_Witness ==
    /\ pc = "cfg_authn"
    /\ secureServing.Generated
    /\ serverConfig.SecureServing = "/self-signed.crt"

\* the last call in the history is op
JustDid(op) == log # <<>> /\ log[Len(log)].op = op

\* C17: building the server and registering the health check start nothing: in
\* the state where config.Complete(...).New() or AddHealthzChecks has just run,
\* neither the manager's loop nor the server's accept loop has been started; and
\* the check is registered before the server's accept loop begins.
C17_CompositionStartsNothing ==
    /\ (JustDid("config.Complete.New") \/ JustDid("server.AddHealthzChecks")) =>
          /\ mgr.loop = "none"
          /\ server.state \in {"none", "new"}
          /\ ~Did("mgr.RunUntil")
          /\ ~Did("server.PrepareRun.Run")
    /\ JustDid("server.AddHealthzChecks") => "healthz" \in server.checks
    /\ \A i \in Idx("server.PrepareRun.Run") :
          \E j \in 1..(i - 1) : log[j].op = "server.AddHealthzChecks"
    /\ server.state \in {"listening", "stopped", "failed"} =>
          "healthz" \in server.checks

C17_Witness ==
    /\ pc = "run_mgrstart"
    /\ JustDid("server.AddHealthzChecks")
    /\ "healthz" \in server.checks
    /\ server.state = "new"

\* the components that hold the sink's write side
WriteHolders ==
    {c \in {"mgr", "config.Node", "config.Pod", "server.Node", "server.Pod"} :
        (CASE c = "mgr"         -> mgr.sink
           [] c = "config.Node" -> config.Node
           [] c = "config.Pod"  -> config.Pod
           [] c = "server.Node" -> server.Node
           [] c = "server.Pod"  -> server.Pod).side = "write"}

\* C18: the write side returned by NewSinkProvider is held by the manager only,
\* the read side by the server's provider slots only: the manager is the sole
\* holder of write access to the sink and the serving side holds read access.
C18_SingleWriter ==
    /\ WriteHolders \subseteq {"mgr"}
    /\ mgr.created =>
          /\ mgr.sink = pipeline.metricSink
          /\ WriteHolders = {"mgr"}
    /\ mgr.sink.side # "read"
    /\ server.created =>
          /\ server.Node.side = "read"
          /\ server.Pod.side = "read"
          /\ server.Node.id = mgr.sink.id
          /\ server.Pod.id = mgr.sink.id

C18_Witness ==
    /\ server.state = "listening"
    /\ mgr.loop = "running"
    /\ mgr.inCycle
    /\ WriteHolders = {"mgr"}
    /\ server.Node.side = "read"

\* C19: no step of NewCommandStartMetricsServer, Config or Run closes the
\* cancellation signal, on success or on error paths: whenever it is closed, it
\* was open, and the step is the owner's and changes nothing of the program.
C19_OnlyOwnerClosesSignal ==
    [][closed' # closed =>
         /\ closed = {}
         /\ closed' = {stopCh}
         /\ UNCHANGED <<pc, origin, o, secureServing, serverConfig, config, err,
                        ret, clientConfig, kubeletConfig, pipeline, mgr, server,
                        log>>]_vars

C19_Witness ==
    /\ pc = "returned"
    /\ ret = CallErr("server.PrepareRun.Run")
    /\ mgr.loop = "running"
    /\ closed = {}

====
